---- MODULE Spec2Model ----
(***************************************************************************)
(* Portfolio dashboard: the asset collection and exchange rate owned by    *)
(* App, the market-data refresh (handleRefreshMarketData and               *)
(* updateMarketPrices), the add form (handleSubmit, generateStockIcon,     *)
(* handleAddAsset), the receipt extraction (handleFileChange and           *)
(* parseTradeScreenshot), the chat turn (handleSend), the news (getNews    *)
(* and fetchStockNews) and the summary of Dashboard.                       *)
(*                                                                         *)
(* Numbers are fixed-point, in hundredths: 7.52 is 752, a quantity of 2 is *)
(* 200, the rate 154.5 is 15450.  Date.now() is the clock variable now,    *)
(* which Tick advances.                                                    *)
(***************************************************************************)
EXTENDS Integers, Sequences, FiniteSets, TLC

VARIABLES
    assets,             \* App: useState<StockAsset[]>(MOCK_ASSETS)
    usdJpyRate,         \* App: useState<number>(154.5), here in 1/100 yen
    isRefreshingMarket, \* App: the refresh gate
    isAddModalOpen,     \* App: whether AddAssetModal is mounted
    mounted,            \* App: whether the mount effect has run
    refreshes,          \* calls of handleRefreshMarketData suspended at the await
    response,           \* updateMarketPrices: what generateContent gave
    marketData,         \* handleRefreshMarketData: what its await returned
    now,                \* Date.now()
    ticker,             \* AddAssetModal form state
    qty,                \* AddAssetModal form state
    price,              \* AddAssetModal form state
    isProcessing,       \* AddAssetModal: the submit gate
    submits,            \* calls of handleSubmit suspended at the await
    iconUrl,            \* handleSubmit: what its await returned
    resuming,           \* the suspended call whose await has returned
    messages,           \* SidebarChat: useState<ChatMessage[]>
    input,              \* SidebarChat: the text of the input box
    isLoading,          \* SidebarChat: the send gate
    fullResponse,       \* handleSend: the text accumulated so far
    stream,             \* the reply streamPortfolioChat is delivering
    received,           \* how many fragments of stream handleSend has consumed
    activeTab,          \* AddAssetModal: the tab shown, 'manual' or 'image'
    loadingStatus,      \* AddAssetModal: the status line shown while processing
    files,              \* calls of handleFileChange that have not finished
    data,               \* onloadend: what its await returned
    news,               \* Dashboard: useState<NewsItem[]>([])
    loadingNews,        \* Dashboard: useState(false)
    newsDep,            \* Dashboard: the assets.length the news effect last ran for
    newsCalls,          \* calls of fetchStockNews that have not returned
    newsResponse,       \* fetchStockNews: what generateContent gave
    newsItems,          \* getNews: what its await returned
    newsRequests,       \* how often fetchStockNews has called generateContent
    summary             \* Dashboard: the summary of the last render

appVars == <<assets, usdJpyRate, isRefreshingMarket, isAddModalOpen, mounted,
             refreshes, response, marketData, now>>
modalVars == <<ticker, qty, price, isProcessing, submits, iconUrl>>
chatVars == <<messages, input, isLoading, fullResponse, stream, received>>
fileVars == <<activeTab, loadingStatus, files, data>>
newsVars == <<news, loadingNews, newsDep, newsCalls, newsResponse, newsItems,
             newsRequests>>
portfolioVars == <<assets, usdJpyRate, isRefreshingMarket, isAddModalOpen,
                   mounted, refreshes, response, marketData, now, ticker, qty, price,
                   isProcessing, submits, iconUrl, resuming, activeTab,
                   loadingStatus, files, data, news, loadingNews, newsDep,
                   newsCalls, newsResponse, newsItems, newsRequests, summary>>
vars == <<assets, usdJpyRate, isRefreshingMarket, isAddModalOpen, mounted,
          refreshes, response, marketData, now, ticker, qty, price, isProcessing, submits,
          iconUrl, resuming, messages, input, isLoading, fullResponse, stream,
          received, activeTab, loadingStatus, files, data, news, loadingNews,
          newsDep, newsCalls, newsResponse, newsItems, newsRequests, summary>>

----------------------------------------------------------------------------
(* Bounds *)

MaxTime == 1
MaxAssets == 2
MaxOutstanding == 2
MaxTurns == 2
MaxFragments == 2
MaxFiles == 1
MaxSegments == 2
MaxStories == 11
MaxNewsRequests == 2
MaxLots == 3

\* The number of stories the prompt of fetchStockNews asks for
TopStories == 10

----------------------------------------------------------------------------
(* JavaScript values *)

Num(n) == [t |-> "number", v |-> n]
Str == [t |-> "string", v |-> 0]
Undefined == [t |-> "undefined", v |-> 0]
Null == [t |-> "null", v |-> 0]

\* JavaScript truthiness of a value: if (x)
Truthy(x) ==
    \/ x.t = "number" /\ x.v # 0
    \/ x.t = "string"
    \/ x.t = "text" /\ x.s # ""
    \/ x.t = "object"

\* String.prototype.toUpperCase on the ticker strings of the model
toUpperCase(s) ==
    CASE s = "itub" -> "ITUB"
      [] s = "aapl" -> "AAPL"
      [] OTHER -> s

\* parseFloat on the strings the number inputs of the form can hold
parseFloat(s) ==
    CASE s = "2" -> 200
      [] s = "1.00" -> 100
      [] s = "150" -> 15000
      [] s = "3" -> 300
      [] s = "2.5" -> 250
      [] s = "0" -> 0
      [] s = "-2" -> -200
      [] s = "-1.00" -> -100

\* Number.prototype.toString on the numbers a receipt can carry
NumToString(n) ==
    CASE n = 300 -> "3"
      [] n = 250 -> "2.5"
      [] n = 0 -> "0"

\* A string value whose characters matter: '' is falsy
TextVal(s) == [t |-> "text", s |-> s]

\* x[field] for a JSON value x: undefined unless x is an object
Member(x, field) == IF x.t = "object" THEN x[field] ELSE Undefined

\* The product of two fixed-point numbers
Mul(a, b) == (a * b) \div 100

RemoveAt(s, i) == SubSeq(s, 1, i - 1) \o SubSeq(s, i + 1, Len(s))

----------------------------------------------------------------------------
(* The market-snapshot gateway: updateMarketPrices *)

\* A JSON object {"prices": ..., "usdJpy": ...}; either member may be missing
JsonObject(p, r) == [t |-> "object", prices |-> p, usdJpy |-> r]

\* The prices member: an object whose entries keep their insertion order
PriceMap(es) == [t |-> "object", entries |-> es]

PriceKeys == {"ITUB", "itub", "AAPL"}
PriceVals == {Num(0), Num(800), Str}
PriceEntries == PriceKeys \X PriceVals

\* No entry, one entry, or a lower-case key followed by an upper-case key,
\* both with numbers
PriceMaps ==
    {PriceMap(<<>>)}
        \cup {PriceMap(<<e>>) : e \in PriceEntries}
        \cup {PriceMap(<<e[1], e[2]>>) :
                e \in {x \in PriceEntries \X PriceEntries :
                         /\ x[1][1] # toUpperCase(x[1][1])
                         /\ x[2][1] = toUpperCase(x[2][1])
                         /\ x[1][2].t = "number"
                         /\ x[2][2].t = "number"}}

RateVals == {Undefined, Num(0), Num(15000)}

JsonObjects == {JsonObject(p, r) : p \in PriceMaps \cup {Undefined}, r \in RateVals}

\* The objects that also come wrapped in a code fence
FencedObjects ==
    {JsonObject(PriceMap(<<e>>), Num(15000)) :
        e \in {x \in PriceEntries : x[2] = Num(800)}}

\* What JSON.parse can return for the texts of the model: an object of the
\* expected shape, or a JSON scalar
JsonVals == JsonObjects \cup {Num(5), Null}

\* The pieces a response text is made of
FenceJson == [tok |-> "fence_json"]
Fence == [tok |-> "fence"]
Newline == [tok |-> "newline"]
Junk == [tok |-> "junk"]
Json(v) == [tok |-> "json", val |-> v]

\* The two replace calls that delete the code-fence markers
StripFences(text) == SelectSeq(text, LAMBDA k : k # FenceJson /\ k # Fence)

RECURSIVE TrimStart(_)
TrimStart(text) ==
    IF text # <<>> /\ Head(text) = Newline THEN TrimStart(Tail(text)) ELSE text

RECURSIVE TrimEnd(_)
TrimEnd(text) ==
    IF text # <<>> /\ text[Len(text)] = Newline
    THEN TrimEnd(SubSeq(text, 1, Len(text) - 1))
    ELSE text

\* String.prototype.trim
Trim(text) == TrimEnd(TrimStart(text))

\* A parser that stops after the first JSON value and ignores what follows
JsonParsesLenient(text) == Len(text) >= 1 /\ text[1].tok = "json"

\* JSON.parse: a single JSON value parses, anything else throws
JsonParses(text) == Len(text) = 1 /\ text[1].tok = "json"

\* The reply of ai.models.generateContent: it throws, or response.text is
\* missing, or response.text is a text
NoResponse == [kind |-> "none"]
Threw == [kind |-> "throw"]
NoText == [kind |-> "notext"]
Text(x) == [kind |-> "text", text |-> x]

MarketTexts ==
    {<<>>, <<Junk>>, <<FenceJson, Newline, Fence>>, <<Newline>>}
        \cup {<<Json(v)>> : v \in JsonVals}
        \cup {<<FenceJson, Newline, Json(v), Newline, Fence>> : v \in FencedObjects}
        \cup {<<Json(v), Junk>> : v \in {JsonObject(Undefined, Num(15000))}}

MarketResponses == {Threw, NoText} \cup {Text(x) : x \in MarketTexts}

\* updateMarketPrices(tickers): the prompt depends on tickers, the parsing of
\* the reply does not
updateMarketPrices(tickers, reply) ==
    IF reply.kind = "throw" THEN Null
    ELSE LET text == Trim(StripFences(IF reply.kind = "text"
                                      THEN reply.text ELSE <<>>))
         IN  IF text # <<>>
             THEN IF JsonParses(text) THEN text[1].val ELSE Null
             ELSE Null

----------------------------------------------------------------------------
(* The icon gateway: generateStockIcon *)

ImageData == {1}

\* response.candidates?.[0]?.content?.parts?.[0]: missing, a part without
\* inlineData, or a part with it
IconParts ==
    {Undefined, [t |-> "object", inlineData |-> Undefined]}
        \cup {[t |-> "object", inlineData |-> [t |-> "object", data |-> d]] :
                d \in ImageData}

IconResponses == {Threw} \cup {[kind |-> "parts", part |-> q] : q \in IconParts}

DataUrl(d) == [t |-> "string", prefix |-> "data:image/png;base64,", data |-> d]

generateStockIcon(tkr, reply) ==
    IF reply.kind = "throw" THEN Undefined
    ELSE IF Truthy(reply.part) /\ Truthy(reply.part.inlineData)
         THEN DataUrl(reply.part.inlineData.data)
         ELSE Undefined

----------------------------------------------------------------------------
(* The receipt gateway: parseTradeScreenshot *)

\* The object the response schema describes; any member may be missing
TradeFields(tk, q, a) ==
    [t |-> "object", ticker |-> tk, quantity |-> q, avgPrice |-> a]

ReceiptTickers == {Undefined, TextVal("MSFT"), TextVal("")}
ReceiptQuantities == {Undefined, Num(0), Num(300)}
ReceiptPrices == {Undefined, Num(250)}

ReceiptObjects ==
    {TradeFields(tk, q, a) :
        tk \in ReceiptTickers, q \in ReceiptQuantities, a \in ReceiptPrices}

ReceiptTexts ==
    {<<>>, <<Junk>>, <<Json(Null)>>, <<Json(Num(5))>>,
     <<FenceJson, Newline, Json(TradeFields(TextVal("MSFT"), Num(300), Num(250))),
       Newline, Fence>>}
        \cup {<<Json(v)>> : v \in ReceiptObjects}

ReceiptResponses == {Threw, NoText} \cup {Text(x) : x \in ReceiptTexts}

\* How an awaited call ends: it returns a value, or it throws
Returned(v) == [kind |-> "return", val |-> v]
Thrown == [kind |-> "throw"]

\* parseTradeScreenshot: the text is parsed as it is; a failure of the call or
\* of JSON.parse is logged and thrown again
parseTradeScreenshot(reply) ==
    IF reply.kind = "throw" THEN Thrown
    ELSE IF reply.kind = "text" /\ reply.text # <<>>
         THEN IF JsonParses(reply.text)
              THEN Returned(reply.text[1].val)
              ELSE Thrown
         ELSE Returned(Null)

----------------------------------------------------------------------------
(* App *)

\* The texts setLoadingStatus is given
StatusParsing == "parsing"
StatusExtracted == "extracted"
StatusFailed == "failed"
StatusIcon == "icon"

MOCK_ASSETS ==
    << [id |-> "initial-itub", ticker |-> "ITUB",
        companyName |-> "Itau Unibanco Holding", quantity |-> 100,
        avgPrice |-> 752, currentPrice |-> 752, iconUrl |-> Undefined,
        lastUpdated |-> 0] >>

\* No suspended call is about to resume
NoCall == <<>>

\* The news effect has not run yet
NotRun == -1

\* The summary before the first render
NotRendered == [rendered |-> FALSE]

\* The Dashboard state after construction
NewsInit ==
    /\ news = <<>>
    /\ loadingNews = FALSE
    /\ newsDep = NotRun
    /\ newsCalls = <<>>
    /\ newsResponse = NoResponse
    /\ newsItems = <<>>
    /\ newsRequests = 0

\* A text is the sequence of its characters; the two fixed texts of
\* SidebarChat stand as one character each
GreetingText == <<"[greeting]">>
ErrorText == <<"[error]">>

\* No reply is being streamed
NoStream == [chunks |-> <<>>, fails |-> FALSE]

InitRest ==
    /\ usdJpyRate = 15450
    /\ isRefreshingMarket = FALSE
    /\ isAddModalOpen = FALSE
    /\ mounted = FALSE
    /\ refreshes = <<>>
    /\ response = NoResponse
    /\ marketData = Undefined
    /\ now = 0
    /\ ticker = ""
    /\ qty = ""
    /\ price = ""
    /\ isProcessing = FALSE
    /\ submits = <<>>
    /\ iconUrl = Undefined
    /\ resuming = NoCall
    /\ messages = <<[role |-> "model", text |-> GreetingText, isThinking |-> FALSE]>>
    /\ input = <<>>
    /\ isLoading = FALSE
    /\ fullResponse = <<>>
    /\ stream = NoStream
    /\ received = 0
    /\ activeTab = "manual"
    /\ loadingStatus = ""
    /\ files = <<>>
    /\ data = Undefined
    /\ NewsInit
    /\ summary = NotRendered

\* The state after construction
Init == assets = MOCK_ASSETS /\ InitRest

\* The event loop takes the next event only when no continuation is waiting
\* to run: a handler resumes right after the promise it awaits has settled
Idle == resuming = NoCall

\* The clock of Date.now() advances
Tick ==
    /\ Idle
    /\ now < MaxTime
    /\ now' = now + 1
    /\ UNCHANGED <<assets, usdJpyRate, isRefreshingMarket, isAddModalOpen,
                   mounted, refreshes, response, marketData, resuming>>
    /\ UNCHANGED modalVars
    /\ UNCHANGED chatVars
    /\ UNCHANGED fileVars
    /\ UNCHANGED <<newsVars, summary>>

\* An add that replaces the record of the same ticker when there is one
AppendAssetDedup(prev, asset) ==
    IF \E k \in 1..Len(prev) : prev[k].ticker = asset.ticker
    THEN [k \in 1..Len(prev) |->
            IF prev[k].ticker = asset.ticker THEN asset ELSE prev[k]]
    ELSE Append(prev, asset)

\* setAssets(prev => [...prev, asset])
AppendAsset(prev, asset) == Append(prev, asset)

handleAddAsset(asset) == assets' = AppendAsset(assets, asset)

\* A member of the awaited result; reading a member of a scalar gives undefined
Member_usdJpy(md) == IF md.t = "object" THEN md.usdJpy ELSE Undefined
Member_prices(md) == IF md.t = "object" THEN md.prices ELSE Undefined

RECURSIVE FindPrice(_, _)
\* Object.entries(prices).find(([t, p]) => t.toUpperCase() ===
\* asset.ticker.toUpperCase())?.[1]
FindPrice(entries, tkr) ==
    IF entries = <<>> THEN Undefined
    ELSE IF toUpperCase(Head(entries)[1]) = toUpperCase(tkr)
         THEN Head(entries)[2]
         ELSE FindPrice(Tail(entries), tkr)

\* A callback that stamps every record, matched or not
MergeAssetTouchAll(asset, prices, time) ==
    LET newPrice == FindPrice(prices.entries, asset.ticker)
    IN  [asset EXCEPT
            !.currentPrice = IF Truthy(newPrice) /\ newPrice.t = "number"
                             THEN newPrice.v ELSE @,
            !.lastUpdated = time]

\* A callback that adds the received price to the current one
MergeAssetAdds(asset, prices, time) ==
    LET newPrice == FindPrice(prices.entries, asset.ticker)
    IN  IF Truthy(newPrice)
        THEN [asset EXCEPT
                !.currentPrice = IF newPrice.t = "number" THEN @ + newPrice.v ELSE @,
                !.lastUpdated = time]
        ELSE asset

\* The callback prevAssets.map applies to one record
MergeAsset(asset, prices, time) ==
    LET newPrice == FindPrice(prices.entries, asset.ticker)
    IN  IF Truthy(newPrice)
        THEN [asset EXCEPT
                !.currentPrice = IF newPrice.t = "number" THEN newPrice.v ELSE @,
                !.lastUpdated = time]
        ELSE asset

\* setAssets(prevAssets => prevAssets.map(...))
MergeAssets(prevAssets, prices, time) ==
    [k \in 1..Len(prevAssets) |-> MergeAsset(prevAssets[k], prices, time)]

\* What handleRefreshMarketData does to the rate once the await has returned md
RateAfter(rate, md) ==
    IF Truthy(md) /\ Truthy(Member_usdJpy(md)) THEN Member_usdJpy(md).v ELSE rate

\* A merge that maps the collection of the render that made the call
\* (setAssets(assets.map(...))) instead of the collection as it stands
AssetsAfterStale(prevAssets, md, assetsLength, time) ==
    IF Truthy(md) /\ Truthy(Member_prices(md)) /\ assetsLength > 0
    THEN [k \in 1..assetsLength |->
            LET newPrice == FindPrice(Member_prices(md).entries, prevAssets[k].ticker)
            IN  IF Truthy(newPrice)
                THEN [prevAssets[k] EXCEPT
                        !.currentPrice = IF newPrice.t = "number"
                                         THEN newPrice.v ELSE @,
                        !.lastUpdated = time]
                ELSE prevAssets[k]]
    ELSE prevAssets

\* What handleRefreshMarketData does to the collection once the await has
\* returned md; assetsLength is assets.length of the render that made the call
AssetsAfter(prevAssets, md, assetsLength, time) ==
    IF Truthy(md) /\ Truthy(Member_prices(md)) /\ assetsLength > 0
    THEN MergeAssets(prevAssets, Member_prices(md), time)
    ELSE prevAssets

\* handleRefreshMarketData up to the await: the gate is set and the call is
\* made with the tickers of the render the handler belongs to
RefreshStart ==
    /\ Len(refreshes) < MaxOutstanding
    /\ isRefreshingMarket' = TRUE
    /\ refreshes' = Append(refreshes,
           [tickers |-> [k \in 1..Len(assets) |-> assets[k].ticker],
            assetsLength |-> Len(assets)])
    /\ UNCHANGED <<assets, usdJpyRate, isAddModalOpen, response, marketData, now, resuming>>
    /\ UNCHANGED modalVars
    /\ UNCHANGED chatVars
    /\ UNCHANGED fileVars
    /\ UNCHANGED <<newsVars, summary>>

\* useEffect(() => { handleRefreshMarketData(); }, [])
MountEffect ==
    /\ ~mounted
    /\ Idle
    /\ mounted' = TRUE
    /\ RefreshStart

\* A refresh button that is never disabled
RefreshButtonNeverDisabled == FALSE

\* disabled={isRefreshing} on the refresh button
RefreshButtonDisabled == isRefreshingMarket

\* onClick={onRefreshMarketData}
ClickRefresh ==
    /\ mounted
    /\ Idle
    /\ ~RefreshButtonDisabled
    /\ UNCHANGED mounted
    /\ RefreshStart

\* The promise of updateMarketPrices settles for the i-th suspended call
MarketReply(i, reply) ==
    /\ Idle
    /\ response' = reply
    /\ marketData' = updateMarketPrices(refreshes[i].tickers, reply)
    /\ resuming' = <<"refresh", i>>
    /\ UNCHANGED <<assets, usdJpyRate, isRefreshingMarket, isAddModalOpen,
                   mounted, refreshes, now>>
    /\ UNCHANGED modalVars
    /\ UNCHANGED chatVars
    /\ UNCHANGED fileVars
    /\ UNCHANGED <<newsVars, summary>>

\* A call of handleRefreshMarketData is about to resume
RefreshResuming == resuming # NoCall /\ resuming[1] = "refresh"

\* handleRefreshMarketData from the await on: the handler applies the result
\* and releases the gate
RefreshResume ==
    /\ RefreshResuming
    /\ usdJpyRate' = RateAfter(usdJpyRate, marketData)
    /\ assets' = AssetsAfter(assets, marketData,
                             refreshes[resuming[2]].assetsLength, now)
    /\ isRefreshingMarket' = FALSE
    /\ refreshes' = RemoveAt(refreshes, resuming[2])
    /\ response' = NoResponse
    /\ marketData' = Undefined
    /\ resuming' = NoCall
    /\ UNCHANGED <<isAddModalOpen, mounted, now>>
    /\ UNCHANGED modalVars
    /\ UNCHANGED chatVars
    /\ UNCHANGED fileVars
    /\ UNCHANGED <<newsVars, summary>>

\* onChange={(e) => onRateChange(parseFloat(e.target.value) || 0)}
RateChange(value) ==
    /\ mounted
    /\ Idle
    /\ usdJpyRate' = IF value = "" THEN 0 ELSE parseFloat(value)
    /\ UNCHANGED <<assets, isRefreshingMarket, isAddModalOpen, mounted,
                   refreshes, response, marketData, now, resuming>>
    /\ UNCHANGED modalVars
    /\ UNCHANGED chatVars
    /\ UNCHANGED fileVars
    /\ UNCHANGED <<newsVars, summary>>

----------------------------------------------------------------------------
(* AddAssetModal *)

TypedTickers == {"ITUB", "aapl"}
TypedQtys == {"2"}
TypedPrices == {"1.00"}
TypedRates == {"", "150"}

\* 1 + (Math.random() * 0.1 - 0.05), which lies in [0.95, 1.05)
MockFactors == {95, 104}

\* onOpenAddModal={() => setIsAddModalOpen(true)}: the modal mounts with the
\* initial form state
OpenAddModal ==
    /\ mounted
    /\ Idle
    /\ ~isAddModalOpen
    /\ isAddModalOpen' = TRUE
    /\ UNCHANGED <<assets, usdJpyRate, isRefreshingMarket, mounted, refreshes,
                   response, marketData, now, resuming>>
    /\ UNCHANGED modalVars
    /\ UNCHANGED chatVars
    /\ UNCHANGED fileVars
    /\ UNCHANGED <<newsVars, summary>>

\* Unmounting the modal discards its state; the next mount starts from the
\* useState initial values
ModalUnmounted ==
    /\ isAddModalOpen' = FALSE
    /\ ticker' = ""
    /\ qty' = ""
    /\ price' = ""
    /\ isProcessing' = FALSE
    /\ activeTab' = "manual"
    /\ loadingStatus' = ""
    /\ files' = <<>>

\* The close button: onClose={() => setIsAddModalOpen(false)}
CloseAddModal ==
    /\ isAddModalOpen
    /\ Idle
    /\ ModalUnmounted
    /\ UNCHANGED <<assets, usdJpyRate, isRefreshingMarket, mounted, refreshes,
                   response, marketData, now, submits, iconUrl, resuming>>
    /\ UNCHANGED chatVars
    /\ UNCHANGED data
    /\ UNCHANGED <<newsVars, summary>>

\* onChange={e => setTicker(e.target.value.toUpperCase())}
SetTicker(value) ==
    /\ isAddModalOpen
    /\ Idle
    /\ activeTab = "manual"
    /\ ticker' = toUpperCase(value)
    /\ UNCHANGED <<qty, price, isProcessing, submits, iconUrl, resuming>>
    /\ UNCHANGED appVars
    /\ UNCHANGED chatVars
    /\ UNCHANGED fileVars
    /\ UNCHANGED <<newsVars, summary>>

\* onChange={e => setQty(e.target.value)}
SetQty(value) ==
    /\ isAddModalOpen
    /\ Idle
    /\ activeTab = "manual"
    /\ qty' = value
    /\ UNCHANGED <<ticker, price, isProcessing, submits, iconUrl, resuming>>
    /\ UNCHANGED appVars
    /\ UNCHANGED chatVars
    /\ UNCHANGED fileVars
    /\ UNCHANGED <<newsVars, summary>>

\* onChange={e => setPrice(e.target.value)}
SetPrice(value) ==
    /\ isAddModalOpen
    /\ Idle
    /\ activeTab = "manual"
    /\ price' = value
    /\ UNCHANGED <<ticker, qty, isProcessing, submits, iconUrl, resuming>>
    /\ UNCHANGED appVars
    /\ UNCHANGED chatVars
    /\ UNCHANGED fileVars
    /\ UNCHANGED <<newsVars, summary>>

\* disabled={isProcessing} on the submit button
SubmitButtonDisabled == isProcessing

\* handleSubmit up to the await, while the records and the pending submits
\* are fewer than limit.  The three inputs are required, so the form is
\* submitted only when none is empty.  The handler keeps the form state of
\* the render it belongs to.
SubmitStartWithin(limit) ==
    /\ isAddModalOpen
    /\ Idle
    /\ activeTab = "manual"
    /\ ~SubmitButtonDisabled
    /\ ticker # "" /\ qty # "" /\ price # ""
    /\ Len(assets) + Len(submits) < limit
    /\ isProcessing' = TRUE
    /\ loadingStatus' = StatusIcon
    /\ submits' = Append(submits, [ticker |-> ticker, qty |-> qty, price |-> price])
    /\ UNCHANGED <<ticker, qty, price, iconUrl, resuming>>
    /\ UNCHANGED appVars
    /\ UNCHANGED chatVars
    /\ UNCHANGED <<activeTab, files, data>>
    /\ UNCHANGED <<newsVars, summary>>

\* handleSubmit up to the await
SubmitStart == SubmitStartWithin(MaxAssets)

\* The promise of generateStockIcon settles for the i-th suspended call
IconReply(i, reply) ==
    /\ Idle
    /\ iconUrl' = generateStockIcon(submits[i].ticker, reply)
    /\ resuming' = <<"submit", i>>
    /\ UNCHANGED <<ticker, qty, price, isProcessing, submits>>
    /\ UNCHANGED appVars
    /\ UNCHANGED chatVars
    /\ UNCHANGED fileVars
    /\ UNCHANGED <<newsVars, summary>>

\* A call of handleSubmit is about to resume
SubmitResuming == resuming # NoCall /\ resuming[1] = "submit"

\* The record handleSubmit builds once the icon call has returned icon
NewAsset(form, icon, factor, time) ==
    [id |-> ToString(time),
     ticker |-> toUpperCase(form.ticker),
     companyName |-> toUpperCase(form.ticker),
     quantity |-> parseFloat(form.qty),
     avgPrice |-> parseFloat(form.price),
     currentPrice |-> Mul(parseFloat(form.price), factor),
     iconUrl |-> icon,
     lastUpdated |-> time]

\* A submit that gives up when the icon call returned nothing
SubmitResumeIconRequired(factor) ==
    /\ SubmitResuming
    /\ IF iconUrl = Undefined
       THEN UNCHANGED assets
       ELSE assets' = Append(assets,
                NewAsset(submits[resuming[2]], iconUrl, factor, now))
    /\ isAddModalOpen' = FALSE
    /\ ticker' = ""
    /\ qty' = ""
    /\ price' = ""
    /\ isProcessing' = FALSE
    /\ activeTab' = "manual"
    /\ loadingStatus' = ""
    /\ files' = <<>>
    /\ activeTab' = "manual"
    /\ loadingStatus' = ""
    /\ files' = <<>>
    /\ submits' = RemoveAt(submits, resuming[2])
    /\ iconUrl' = Undefined
    /\ resuming' = NoCall
    /\ UNCHANGED <<usdJpyRate, isRefreshingMarket, mounted, refreshes,
                   response, marketData, now>>
    /\ UNCHANGED chatVars
    /\ UNCHANGED data
    /\ UNCHANGED <<newsVars, summary>>

\* handleSubmit from the await on: the record is built and handed to onAdd,
\* and onClose unmounts the modal
SubmitResume(factor) ==
    /\ SubmitResuming
    /\ handleAddAsset(NewAsset(submits[resuming[2]], iconUrl, factor, now))
    /\ ModalUnmounted
    /\ submits' = RemoveAt(submits, resuming[2])
    /\ iconUrl' = Undefined
    /\ resuming' = NoCall
    /\ UNCHANGED <<usdJpyRate, isRefreshingMarket, mounted, refreshes,
                   response, marketData, now>>
    /\ UNCHANGED chatVars
    /\ UNCHANGED data
    /\ UNCHANGED <<newsVars, summary>>

\* The tab buttons: onClick={() => setActiveTab(...)}
SetActiveTab(tab) ==
    /\ isAddModalOpen
    /\ Idle
    /\ activeTab' = tab
    /\ UNCHANGED <<loadingStatus, files, data>>
    /\ UNCHANGED modalVars
    /\ UNCHANGED <<resuming>>
    /\ UNCHANGED appVars
    /\ UNCHANGED chatVars
    /\ UNCHANGED <<newsVars, summary>>

\* What the file input hands to handleFileChange
NoFile == "none"
ImageFile == "image"

\* handleFileChange: the file input is rendered on the image tab only.  With
\* a file, the gate and the status are set and the read is started;
\* readAsDataURL does not throw for a File, so the catch block is not entered
SelectFile(file) ==
    /\ isAddModalOpen
    /\ Idle
    /\ activeTab = "image"
    /\ Len(files) < MaxFiles
    /\ IF file = NoFile
       THEN UNCHANGED <<isProcessing, loadingStatus, files>>
       ELSE /\ isProcessing' = TRUE
            /\ loadingStatus' = StatusParsing
            /\ files' = Append(files, "reading")
    /\ UNCHANGED <<ticker, qty, price, submits, iconUrl, resuming, activeTab, data>>
    /\ UNCHANGED appVars
    /\ UNCHANGED chatVars
    /\ UNCHANGED <<newsVars, summary>>

\* reader.onloadend up to its await.  loadend follows a failed read as well;
\* reader.result is null then, split throws and the handler ends there
FileLoadEnd(i, ok) ==
    /\ Idle
    /\ files[i] = "reading"
    /\ files' = IF ok THEN [files EXCEPT ![i] = "parsing"] ELSE RemoveAt(files, i)
    /\ UNCHANGED <<activeTab, loadingStatus, data>>
    /\ UNCHANGED modalVars
    /\ UNCHANGED <<resuming>>
    /\ UNCHANGED appVars
    /\ UNCHANGED chatVars
    /\ UNCHANGED <<newsVars, summary>>

\* The promise of parseTradeScreenshot settles for the i-th call
ReceiptReply(i, reply) ==
    /\ Idle
    /\ files[i] = "parsing"
    /\ data' = parseTradeScreenshot(reply)
    /\ resuming' = <<"file", i>>
    /\ UNCHANGED <<activeTab, loadingStatus, files>>
    /\ UNCHANGED modalVars
    /\ UNCHANGED appVars
    /\ UNCHANGED chatVars
    /\ UNCHANGED <<newsVars, summary>>

\* A call of onloadend is about to resume
FileResuming == resuming # NoCall /\ resuming[1] = "file"

\* if (data.field) setField(...): the field takes the text when the member is
\* truthy
Patched(old, member, text) == IF Truthy(member) THEN text ELSE old

\* reader.onloadend from the await on.  When parseTradeScreenshot has thrown,
\* the handler ends with the exception and nothing is set
FileResume ==
    /\ FileResuming
    /\ IF data.kind = "throw"
       THEN UNCHANGED <<ticker, qty, price, activeTab, loadingStatus, isProcessing>>
       ELSE /\ IF Truthy(data.val)
               THEN LET tk == Member(data.val, "ticker")
                        q == Member(data.val, "quantity")
                        a == Member(data.val, "avgPrice")
                    IN  /\ ticker' = Patched(ticker, tk, tk.s)
                        /\ qty' = Patched(qty, q, NumToString(q.v))
                        /\ price' = Patched(price, a, NumToString(a.v))
                        /\ activeTab' = "manual"
                        /\ loadingStatus' = StatusExtracted
               ELSE UNCHANGED <<ticker, qty, price, activeTab, loadingStatus>>
            /\ isProcessing' = FALSE
    /\ files' = RemoveAt(files, resuming[2])
    /\ data' = Undefined
    /\ resuming' = NoCall
    /\ UNCHANGED <<submits, iconUrl>>
    /\ UNCHANGED appVars
    /\ UNCHANGED chatVars
    /\ UNCHANGED <<newsVars, summary>>

\* The add modal with the mount of App that lets it open
NextModal ==
    \/ MountEffect
    \/ OpenAddModal
    \/ CloseAddModal
    \/ \E tab \in {"manual", "image"} : SetActiveTab(tab)
    \/ \E v \in TypedTickers : SetTicker(v)
    \/ \E v \in TypedQtys : SetQty(v)
    \/ \E v \in TypedPrices : SetPrice(v)
    \/ \E f \in {NoFile, ImageFile} : SelectFile(f)
    \/ \E i \in 1..Len(files), ok \in BOOLEAN : FileLoadEnd(i, ok)
    \/ \E i \in 1..Len(files), r \in ReceiptResponses : ReceiptReply(i, r)
    \/ FileResume
    \/ SubmitStart
    \/ \E i \in 1..Len(submits), r \in IconResponses : IconReply(i, r)
    \/ \E f \in MockFactors : SubmitResume(f)

SpecModal == Init /\ [][NextModal]_vars

----------------------------------------------------------------------------
(* SidebarChat *)

TypedInputs == {<<>>, <<" ">>, <<"h", "i">>}

\* The fragments streamPortfolioChat can yield
Fragments == {<<"a">>, <<"b", "c">>}

RECURSIVE SeqsUpTo(_, _)
\* The sequences over S of length at most n
SeqsUpTo(S, n) ==
    IF n = 0 THEN {<<>>}
    ELSE LET shorter == SeqsUpTo(S, n - 1)
         IN  shorter \cup {Append(q, x) : q \in shorter, x \in S}

\* A reply: the fragments it yields, and whether it then throws instead of
\* ending
Streams == [chunks : SeqsUpTo(Fragments, MaxFragments), fails : BOOLEAN]

RECURSIVE TrimTextStart(_)
TrimTextStart(text) ==
    IF text # <<>> /\ Head(text) = " " THEN TrimTextStart(Tail(text)) ELSE text

RECURSIVE TrimTextEnd(_)
TrimTextEnd(text) ==
    IF text # <<>> /\ text[Len(text)] = " "
    THEN TrimTextEnd(SubSeq(text, 1, Len(text) - 1))
    ELSE text

\* input.trim()
TrimText(text) == TrimTextEnd(TrimTextStart(text))

UserMessages(msgs) == {k \in 1..Len(msgs) : msgs[k].role = "user"}

\* onChange={(e) => setInput(e.target.value)}
SetInput(value) ==
    /\ input' = value
    /\ UNCHANGED <<messages, isLoading, fullResponse, stream, received>>
    /\ UNCHANGED portfolioVars

\* if (!input.trim()) return: the guard without the gate
SendRejectedBlankOnly == TrimText(input) = <<>>

\* if (!input.trim() || isLoading) return;
SendRejected == TrimText(input) = <<>> \/ isLoading

\* An updater that writes the text into the first message of the history
ReplaceFirst(prev, text) ==
    [prev EXCEPT ![1] = [role |-> "model", text |-> text,
                         isThinking |-> FALSE]]

\* The updater of the for-await body: the last message is replaced
ReplaceLast(prev, text) ==
    [prev EXCEPT ![Len(prev)] = [role |-> "model", text |-> text,
                                 isThinking |-> FALSE]]

\* fullResponse = chunk: an assignment where the code appends
AccumulateOverwrite(text, chunk) == chunk

\* fullResponse += chunk
Accumulate(text, chunk) == text \o chunk

\* handleSend up to the first await of the for-await loop: the user message
\* and the placeholder are appended and the gate is set; reply is what the
\* gateway is going to stream
handleSend(reply) ==
    /\ Cardinality(UserMessages(messages)) < MaxTurns
    /\ IF SendRejected
       THEN UNCHANGED chatVars
       ELSE /\ messages' = messages \o
                  << [role |-> "user", text |-> input, isThinking |-> FALSE],
                     [role |-> "model", text |-> <<>>, isThinking |-> TRUE] >>
            /\ input' = <<>>
            /\ isLoading' = TRUE
            /\ fullResponse' = <<>>
            /\ stream' = reply
            /\ received' = 0
    /\ UNCHANGED portfolioVars

\* The for-await body for the next fragment
StreamChunk ==
    /\ isLoading
    /\ received < Len(stream.chunks)
    /\ fullResponse' = Accumulate(fullResponse, stream.chunks[received + 1])
    /\ messages' = ReplaceLast(messages, fullResponse')
    /\ received' = received + 1
    /\ UNCHANGED <<input, isLoading, stream>>
    /\ UNCHANGED portfolioVars

\* The stream is exhausted: the loop ends and finally releases the gate
StreamEnd ==
    /\ isLoading
    /\ received = Len(stream.chunks)
    /\ ~stream.fails
    /\ isLoading' = FALSE
    /\ stream' = NoStream
    /\ received' = 0
    /\ UNCHANGED <<messages, input, fullResponse>>
    /\ UNCHANGED portfolioVars

\* The stream throws: catch appends the error message, finally releases the
\* gate
StreamFail ==
    /\ isLoading
    /\ received = Len(stream.chunks)
    /\ stream.fails
    /\ messages' = Append(messages, [role |-> "model", text |-> ErrorText,
                                     isThinking |-> FALSE])
    /\ isLoading' = FALSE
    /\ stream' = NoStream
    /\ received' = 0
    /\ UNCHANGED <<input, fullResponse>>
    /\ UNCHANGED portfolioVars

NextChat ==
    \/ \E v \in TypedInputs : SetInput(v)
    \/ \E r \in Streams : handleSend(r)
    \/ StreamChunk
    \/ StreamEnd
    \/ StreamFail

SpecChat == Init /\ [][NextChat]_vars

----------------------------------------------------------------------------
(* The news gateway: fetchStockNews *)

\* A news text is a sequence of characters in which each of the two
\* delimiters stands as one element
StorySep == "|||"
PartSep == "::"

RECURSIVE SplitOn(_, _)
\* String.prototype.split: the pieces between the occurrences of sep
SplitOn(text, sep) ==
    IF \A k \in 1..Len(text) : text[k] # sep
    THEN <<text>>
    ELSE LET i == CHOOSE k \in 1..Len(text) :
                      text[k] = sep /\ \A j \in 1..(k - 1) : text[j] # sep
         IN  <<SubSeq(text, 1, i - 1)>> \o SplitOn(SubSeq(text, i + 1, Len(text)), sep)

\* One element of response.candidates[0].groundingMetadata.groundingChunks
Chunk(n) == [uri |-> <<"u", n>>, title |-> <<"t", n>>]

DefaultHeadline == <<"[related news]">>
FallbackHeadline == <<"[market news]">>
GoogleSearch == <<"[Google Search]">>

\* text.split('|||').map(s => s.trim()).filter(s => s.length > 0)
RawItems(text) ==
    LET pieces == SplitOn(text, StorySep)
        trimmed == [k \in 1..Len(pieces) |-> TrimText(pieces[k])]
    IN  SelectSeq(trimmed, LAMBDA piece : Len(piece) > 0)

\* groundingChunks[index % groundingChunks.length]: undefined when there is
\* no chunk
ChunkAt(chunks, index) ==
    IF chunks = <<>> THEN Undefined ELSE chunks[(index % Len(chunks)) + 1]

\* The callback of rawItems.map; index counts from 0
NewsItem(raw, index, chunks) ==
    LET parts == SplitOn(raw, PartSep)
        first == TrimText(parts[1])
        second == IF Len(parts) >= 2 THEN TrimText(parts[2]) ELSE <<>>
        chunk == ChunkAt(chunks, index)
    IN  [headline |-> IF first # <<>> THEN first ELSE DefaultHeadline,
         summary |-> IF second # <<>> THEN second ELSE raw,
         url |-> IF chunk = Undefined THEN Undefined ELSE chunk.uri,
         source |-> IF chunk = Undefined THEN GoogleSearch ELSE chunk.title]

\* The segments a reply text is put together from
NewsSegments ==
    {<<>>, <<" ">>, <<"a">>, <<" ", "a", " ">>, <<"a", PartSep, "b">>,
     <<"a", " ", PartSep, " ", "b">>, <<PartSep, "b">>, <<"a", PartSep>>,
     <<"a", PartSep, "b", PartSep, "c">>}

RECURSIVE JoinStories(_)
\* The segments of a text, with the story delimiter between them
JoinStories(segs) ==
    IF Len(segs) = 0 THEN <<>>
    ELSE IF Len(segs) = 1 THEN segs[1]
    ELSE segs[1] \o <<StorySep>> \o JoinStories(Tail(segs))

\* A text of n one-word stories
Stories(n) == JoinStories([k \in 1..n |-> <<"a">>])

NewsTexts ==
    {JoinStories(segs) : segs \in SeqsUpTo(NewsSegments, MaxSegments) \ {<<>>}}
        \cup {Stories(n) : n \in 1..MaxStories}

NewsChunks == {<<>>, <<Chunk(1), Chunk(2)>>}

NewsResponses ==
    {Threw, NoText}
        \cup {[kind |-> "text", text |-> x, chunks |-> g] :
                x \in NewsTexts, g \in NewsChunks}

\* if (tickers.length === 0) return [] left out: every call goes out
IssuesRequestAlways(tickers) == TRUE

\* Whether fetchStockNews(tickers) gets as far as generateContent
IssuesRequest(tickers) == Len(tickers) # 0

\* fetchStockNews(tickers), reply being what generateContent gives when it is
\* called
fetchStockNews(tickers, reply) ==
    IF ~IssuesRequest(tickers) THEN <<>>
    ELSE IF reply.kind = "throw" THEN <<>>
    ELSE LET text == IF reply.kind = "text" THEN reply.text ELSE <<>>
             groundingChunks == IF reply.kind = "text" THEN reply.chunks ELSE <<>>
             rawItems == RawItems(text)
             newsItemsOut == [k \in 1..Len(rawItems) |->
                                NewsItem(rawItems[k], k - 1, groundingChunks)]
         IN  IF Len(newsItemsOut) = 0 /\ Len(text) > 0
             THEN << [headline |-> FallbackHeadline,
                      summary |-> text,
                      url |-> IF groundingChunks = <<>> THEN Undefined
                              ELSE groundingChunks[1].uri,
                      source |-> GoogleSearch] >>
             ELSE newsItemsOut

\* The collections Dashboard is rendered with: it takes the collection as a
\* prop and does not rely on it having a record
NewsCollections ==
    {<<>>, MOCK_ASSETS,
     Append(MOCK_ASSETS,
            NewAsset([ticker |-> "aapl", qty |-> "2", price |-> "1.00"],
                     Undefined, 104, 0))}

\* The ticker lists fetchStockNews is applied to on its own
NewsTickerLists == {<<>>, <<"ITUB">>}

\* assets.map(a => a.ticker)
Tickers(coll) == [k \in 1..Len(coll) |-> coll[k].ticker]

InitNews == assets \in NewsCollections /\ InitRest

\* fetchStockNews(tickers) is called: with tickers, generateContent is called
\* and the caller waits for it; without, the call has returned []
CallFetchStockNews(tickers, origin) ==
    /\ newsCalls' = Append(newsCalls,
            [tickers |-> tickers, requested |-> IssuesRequest(tickers),
             origin |-> origin])
    /\ newsRequests' = newsRequests + (IF IssuesRequest(tickers) THEN 1 ELSE 0)

\* The news effect of Dashboard, run after mount and whenever assets.length
\* has changed
getNews ==
    /\ Idle
    /\ newsDep # Len(assets)
    /\ newsDep' = Len(assets)
    /\ IF Len(assets) > 0
       THEN /\ newsRequests < MaxNewsRequests
            /\ loadingNews' = TRUE
            /\ CallFetchStockNews(Tickers(assets), "effect")
       ELSE UNCHANGED <<loadingNews, newsCalls, newsRequests>>
    /\ UNCHANGED <<news, newsResponse, newsItems, resuming>>
    /\ UNCHANGED appVars
    /\ UNCHANGED modalVars
    /\ UNCHANGED chatVars
    /\ UNCHANGED <<fileVars, summary>>

\* fetchStockNews applied to a ticker list on its own, before Dashboard is
\* mounted, from the call to the return: reply is what generateContent gives
\* when the call gets that far
ApplyFetchStockNews(tickers, reply) ==
    /\ Idle
    /\ newsDep = NotRun
    /\ newsCalls = <<>>
    /\ newsRequests < MaxNewsRequests
    /\ IssuesRequest(tickers) <=> reply # NoResponse
    /\ CallFetchStockNews(tickers, "caller")
    /\ newsResponse' = reply
    /\ newsItems' = fetchStockNews(tickers, reply)
    /\ resuming' = <<"news", 1>>
    /\ UNCHANGED <<news, loadingNews, newsDep>>
    /\ UNCHANGED appVars
    /\ UNCHANGED modalVars
    /\ UNCHANGED chatVars
    /\ UNCHANGED <<fileVars, summary>>

\* The promise of fetchStockNews settles for the i-th call of getNews:
\* generateContent has given reply
NewsReply(i, reply) ==
    /\ Idle
    /\ newsCalls[i].requested
    /\ newsResponse' = reply
    /\ newsItems' = fetchStockNews(newsCalls[i].tickers, reply)
    /\ resuming' = <<"news", i>>
    /\ UNCHANGED <<news, loadingNews, newsDep, newsCalls, newsRequests>>
    /\ UNCHANGED appVars
    /\ UNCHANGED modalVars
    /\ UNCHANGED chatVars
    /\ UNCHANGED <<fileVars, summary>>

\* A call of fetchStockNews is about to return to its caller
NewsResuming == resuming # NoCall /\ resuming[1] = "news"

\* getNews from the await on: setNews(items); setLoadingNews(false)
NewsResume ==
    /\ NewsResuming
    /\ IF newsCalls[resuming[2]].origin = "effect"
       THEN news' = newsItems /\ loadingNews' = FALSE
       ELSE UNCHANGED <<news, loadingNews>>
    /\ newsCalls' = RemoveAt(newsCalls, resuming[2])
    /\ newsResponse' = NoResponse
    /\ newsItems' = <<>>
    /\ resuming' = NoCall
    /\ UNCHANGED <<newsDep, newsRequests>>
    /\ UNCHANGED appVars
    /\ UNCHANGED modalVars
    /\ UNCHANGED chatVars
    /\ UNCHANGED <<fileVars, summary>>

NextNews ==
    \/ getNews
    \/ \E t \in NewsTickerLists, r \in NewsResponses \cup {NoResponse} :
          ApplyFetchStockNews(t, r)
    \/ \E i \in 1..Len(newsCalls), r \in NewsResponses : NewsReply(i, r)
    \/ NewsResume

SpecNews == InitNews /\ [][NextNews]_vars

\* The replies of a fetch while the collection grows: a failure, or a text of
\* some number of stories
OverlapResponses ==
    {Threw, NoText}
        \cup {[kind |-> "text", text |-> Stories(n), chunks |-> <<>>] :
                n \in 1..MaxStories}

\* handleAddAsset(asset): Dashboard is rendered with one more record
AddRecord(asset) ==
    /\ Idle
    /\ newsDep # NotRun
    /\ Len(assets) < MaxAssets
    /\ handleAddAsset(asset)
    /\ UNCHANGED <<usdJpyRate, isRefreshingMarket, isAddModalOpen, mounted,
                   refreshes, response, marketData, now, resuming>>
    /\ UNCHANGED modalVars
    /\ UNCHANGED chatVars
    /\ UNCHANGED <<fileVars, newsVars, summary>>

NextOverlap ==
    \/ getNews
    \/ \E t \in TypedTickers :
          AddRecord(NewAsset([ticker |-> t, qty |-> "2", price |-> "1.00"],
                             Undefined, 104, 0))
    \/ \E i \in 1..Len(newsCalls), r \in OverlapResponses : NewsReply(i, r)
    \/ NewsResume

SpecOverlap == Init /\ [][NextOverlap]_vars

----------------------------------------------------------------------------
(* Dashboard: the summary *)

\* A quotient, kept as numerator and denominator
Ratio(n, d) == [num |-> n, den |-> d]

Abs(n) == IF n < 0 THEN -n ELSE n

RECURSIVE Gcd(_, _)
\* The greatest common divisor of two numbers that are not negative
Gcd(a, b) == IF b = 0 THEN a ELSE Gcd(b, a % b)

\* A quotient in lowest terms, with a positive denominator
Reduced(x) ==
    LET g == Gcd(Abs(x.num), Abs(x.den))
        sign == IF x.den < 0 THEN -1 ELSE 1
    IN  Ratio(sign * (x.num \div g), sign * (x.den \div g))

\* Two quotients are the same number
RatioEq(x, y) == Reduced(x) = Reduced(y)

\* The callback of assets.reduce.  A product of two numbers in hundredths is
\* in ten-thousandths, and so are the three totals
SummaryStep(acc, asset) ==
    LET currentVal == asset.quantity * asset.currentPrice
        costBasis == asset.quantity * asset.avgPrice
    IN  [totalValue |-> acc.totalValue + currentVal,
         totalCost |-> acc.totalCost + costBasis,
         totalGain |-> acc.totalGain + (currentVal - costBasis)]

RECURSIVE Reduce(_, _)
\* Array.prototype.reduce with SummaryStep, from the first record on
Reduce(coll, acc) ==
    IF coll = <<>> THEN acc ELSE Reduce(Tail(coll), SummaryStep(acc, Head(coll)))

\* summary.totalCost > 0 ? (summary.totalGain / summary.totalCost) * 100 : 0
GainPercentage(totalGain, totalCost) ==
    IF totalCost > 0 THEN Ratio(totalGain * 100, totalCost) ELSE Ratio(0, 1)

\* The summary Dashboard computes when it renders coll
Summary(coll) ==
    LET acc == Reduce(coll, [totalValue |-> 0, totalCost |-> 0, totalGain |-> 0])
    IN  [rendered |-> TRUE,
         totalValue |-> acc.totalValue,
         totalCost |-> acc.totalCost,
         totalGain |-> acc.totalGain,
         gainPercentage |-> GainPercentage(acc.totalGain, acc.totalCost)]

\* The records of the collections Dashboard is rendered with: quantities and
\* prices as the add form and the refresh can leave them
SummaryRecords ==
    {[id |-> "0", ticker |-> "AAPL", companyName |-> "AAPL", quantity |-> q,
      avgPrice |-> a, currentPrice |-> c, iconUrl |-> Undefined,
      lastUpdated |-> 0] :
        q \in {-200, 0, 200}, a \in {0, 1000}, c \in {0, 1500}}

\* The prices a refresh brings for the records
SummaryPrices == {Num(0), Num(1500), Num(2000)}

InitSummary == assets \in {<<>>, MOCK_ASSETS} /\ InitRest

\* Dashboard renders: the summary is computed from the collection it is given
RenderSummary ==
    /\ summary = NotRendered
    /\ summary' = Summary(assets)
    /\ UNCHANGED appVars
    /\ UNCHANGED modalVars
    /\ UNCHANGED <<resuming>>
    /\ UNCHANGED chatVars
    /\ UNCHANGED <<fileVars, newsVars>>

\* handleAddAsset(asset), and the render that follows the change of state
AddAndRender(asset) ==
    /\ summary # NotRendered
    /\ Len(assets) < MaxAssets
    /\ handleAddAsset(asset)
    /\ summary' = Summary(assets')
    /\ UNCHANGED <<usdJpyRate, isRefreshingMarket, isAddModalOpen, mounted,
                   refreshes, response, marketData, now>>
    /\ UNCHANGED modalVars
    /\ UNCHANGED <<resuming>>
    /\ UNCHANGED chatVars
    /\ UNCHANGED <<fileVars, newsVars>>

\* The price merge of a refresh that returned the price p for every ticker of
\* the collection, and the render that follows
MergeAndRender(p) ==
    /\ summary # NotRendered
    /\ assets # <<>>
    /\ assets' = AssetsAfter(assets,
                    JsonObject(PriceMap([k \in 1..Len(assets) |->
                                            <<assets[k].ticker, p>>]), Undefined),
                    Len(assets), now)
    /\ summary' = Summary(assets')
    /\ UNCHANGED <<usdJpyRate, isRefreshingMarket, isAddModalOpen, mounted,
                   refreshes, response, marketData, now>>
    /\ UNCHANGED modalVars
    /\ UNCHANGED <<resuming>>
    /\ UNCHANGED chatVars
    /\ UNCHANGED <<fileVars, newsVars>>

NextSummary ==
    \/ RenderSummary
    \/ \E r \in SummaryRecords : AddAndRender(r)
    \/ \E p \in SummaryPrices : MergeAndRender(p)

SpecSummary == InitSummary /\ [][NextSummary]_vars

----------------------------------------------------------------------------

Next ==
    \/ Tick
    \/ MountEffect
    \/ ClickRefresh
    \/ \E i \in 1..Len(refreshes), r \in MarketResponses : MarketReply(i, r)
    \/ RefreshResume
    \/ \E v \in TypedRates : RateChange(v)
    \/ OpenAddModal
    \/ CloseAddModal
    \/ \E v \in TypedTickers : SetTicker(v)
    \/ \E v \in TypedQtys : SetQty(v)
    \/ \E v \in TypedPrices : SetPrice(v)
    \/ SubmitStart
    \/ \E i \in 1..Len(submits), r \in IconResponses : IconReply(i, r)
    \/ \E f \in MockFactors : SubmitResume(f)

Spec == Init /\ [][Next]_vars

----------------------------------------------------------------------------
(* App with several adds and with signed numbers in the form and the reply *)

\* What the user types in the add form: the number inputs have no min
AddQtys == {"2", "-2"}
AddPrices == {"1.00", "-1.00"}

\* Replies of the market gateway whose prices are numbers of either sign
SignedMarketResponses ==
    {Text(<<Json(JsonObject(PriceMap(<<<<k, v>>>>), Undefined))>>) :
        k \in {"ITUB", "AAPL"}, v \in {Num(800), Num(-800)}}

NextAdd ==
    \/ Tick
    \/ MountEffect
    \/ ClickRefresh
    \/ \E i \in 1..Len(refreshes), r \in SignedMarketResponses : MarketReply(i, r)
    \/ RefreshResume
    \/ OpenAddModal
    \/ CloseAddModal
    \/ \E v \in {"aapl"} : SetTicker(v)
    \/ \E v \in AddQtys : SetQty(v)
    \/ \E v \in AddPrices : SetPrice(v)
    \/ SubmitStartWithin(MaxLots)
    \/ \E i \in 1..Len(submits), r \in IconResponses : IconReply(i, r)
    \/ \E f \in MockFactors : SubmitResume(f)

SpecAdd == Init /\ [][NextAdd]_vars

----------------------------------------------------------------------------
(* Properties of the refresh *)

\* The entries of a price mapping whose key is the ticker, ignoring case
MatchingEntries(prices, tkr) ==
    {k \in 1..Len(prices.entries) :
        toUpperCase(prices.entries[k][1]) = toUpperCase(tkr)}

\* The awaited result carries a price mapping
CarriesPrices(md) == md.t = "object" /\ md.prices.t = "object"

\* The awaited result carries an exchange rate
CarriesRate(md) == md.t = "object" /\ md.usdJpy.t = "number"

\* The (ticker, quantity, avgPrice, currentPrice) tuples of a collection
Tuples(coll) ==
    [k \in 1..Len(coll) |->
        <<coll[k].ticker, coll[k].quantity, coll[k].avgPrice, coll[k].currentPrice>>]

\* C1: when a refresh resumes with a result that carries a price mapping,
\* every record whose ticker equals, ignoring case, the one key of the mapping
\* that names it ends with that key's price as currentPrice and with
\* lastUpdated set to the time of the merge, whatever number the price is.
C1_EveryMatchingPriceApplied ==
    [][(RefreshResuming /\ CarriesPrices(marketData)) =>
        \A k \in 1..Len(assets) :
            \A e \in MatchingEntries(marketData.prices, assets[k].ticker) :
                (/\ Cardinality(MatchingEntries(marketData.prices, assets[k].ticker)) = 1
                 /\ marketData.prices.entries[e][2].t = "number")
                => /\ assets'[k].currentPrice = marketData.prices.entries[e][2].v
                   /\ assets'[k].lastUpdated = now]_vars

\* C2: a refresh keeps the number and order of the records and the id, ticker,
\* name, quantity, avgPrice and icon of each, and leaves a record whose ticker
\* matches no key of the received mapping exactly as it was, timestamp
\* included.
C2_RefreshFrame ==
    [][RefreshResuming =>
        /\ Len(assets') = Len(assets)
        /\ \A k \in 1..Len(assets) :
              /\ assets'[k].id = assets[k].id
              /\ assets'[k].ticker = assets[k].ticker
              /\ assets'[k].companyName = assets[k].companyName
              /\ assets'[k].quantity = assets[k].quantity
              /\ assets'[k].avgPrice = assets[k].avgPrice
              /\ assets'[k].iconUrl = assets[k].iconUrl
              /\ (~CarriesPrices(marketData)
                    \/ MatchingEntries(marketData.prices, assets[k].ticker) = {})
                 => assets'[k] = assets[k]]_vars

\* A refresh has updated the first record and left the second, whose ticker
\* was not in the mapping, with the timestamp it was created with
C2_Witness ==
    /\ Idle
    /\ Len(assets) = 2
    /\ assets[1].currentPrice = 800
    /\ assets[1].lastUpdated = 1
    /\ assets[2].ticker = "AAPL"
    /\ assets[2].lastUpdated = 0
    /\ assets[2].currentPrice # 800

\* C3: applying the snapshot a refresh has just applied once more changes
\* neither the (ticker, quantity, avgPrice, currentPrice) tuples nor the rate.
C3_RefreshIdempotent ==
    [][RefreshResuming =>
        /\ Tuples(AssetsAfter(assets', marketData, Len(assets'), now'))
             = Tuples(assets')
        /\ RateAfter(usdJpyRate', marketData) = usdJpyRate']_vars

\* A refresh has replaced a price and the rate
C3_Witness ==
    /\ Idle
    /\ ~isRefreshingMarket
    /\ assets[1].currentPrice = 800
    /\ usdJpyRate = 15000
    /\ Len(assets) = 2
    /\ assets[2].ticker = "ITUB"
    /\ assets[2].currentPrice = 800

C5_RateReplaced ==
    [][RefreshResuming =>
        IF CarriesRate(marketData)
        THEN usdJpyRate' = marketData.usdJpy.v
        ELSE usdJpyRate' = usdJpyRate]_vars

\* The replies with which fetching the snapshot fails: the call throws, the
\* text is missing or empty, or what is left after the fences are removed
\* is not one JSON value
FailedResponses ==
    {Threw, NoText, Text(<<>>), Text(<<Newline>>), Text(<<Junk>>),
     Text(<<FenceJson, Newline, Fence>>),
     Text(<<Json(JsonObject(Undefined, Num(15000))), Junk>>)}

\* C6: a failed fetch returns null to the refresh, and the refresh then leaves
\* the collection and the rate as they were and releases the gate.
C6_FailedFetchHasNoEffect ==
    [][(RefreshResuming /\ response \in FailedResponses) =>
        /\ marketData = Null
        /\ assets' = assets
        /\ usdJpyRate' = usdJpyRate
        /\ ~isRefreshingMarket'
        /\ Len(refreshes') = Len(refreshes) - 1]_vars

\* A refresh is about to resume after a reply that is valid JSON followed by
\* other text, with a collection and a rate that an earlier refresh has set
C6_Witness ==
    /\ RefreshResuming
    /\ response = Text(<<Json(JsonObject(Undefined, Num(15000))), Junk>>)
    /\ assets[1].currentPrice = 800
    /\ usdJpyRate = 0
    /\ isRefreshingMarket

\* C7: at most one refresh is outstanding, and the gate is set exactly while
\* one is.
C7_AtMostOneRefresh ==
    /\ Len(refreshes) <= 1
    /\ isRefreshingMarket <=> refreshes # <<>>

\* A refresh started with the button, after a record was added, is outstanding
C7_Witness ==
    /\ Len(refreshes) = 1
    /\ refreshes[1].assetsLength = 2
    /\ isRefreshingMarket

----------------------------------------------------------------------------
(* Properties of the add *)

\* C8: the collection changes length only by growing by one, which every
\* resumed submit makes it do, and the records there were stay as they were
\* in front of the new one, also when one of them has the ticker of the new
\* one.
C8_AddAppendsOne ==
    [][/\ Len(assets') # Len(assets) =>
             /\ Len(assets') = Len(assets) + 1
             /\ SubSeq(assets', 1, Len(assets)) = assets
       /\ SubmitResuming =>
             /\ Len(assets') = Len(assets) + 1
             /\ assets'[Len(assets')].ticker
                  = toUpperCase(submits[resuming[2]].ticker)]_vars

\* A second lot of a ticker the collection already had has been added
C8_Witness ==
    /\ Len(assets) = 2
    /\ assets[1].ticker = "ITUB"
    /\ assets[2].ticker = "ITUB"
    /\ assets[2].id # assets[1].id

\* C9: the collection grows only when a submit resumes after its icon call
\* has settled, never when the form is submitted; the submit that resumes
\* leaves the suspended calls and adds one record, which carries what the icon
\* call returned, be it a data URL or undefined.
C9_RecordAfterIcon ==
    [][/\ Len(assets') > Len(assets) => SubmitResuming
       /\ Len(submits') > Len(submits) => assets' = assets
       /\ SubmitResuming =>
             /\ Len(assets') = Len(assets) + 1
             /\ Len(submits') = Len(submits) - 1
             /\ assets'[Len(assets')].iconUrl = iconUrl
             /\ assets'[Len(assets')].ticker
                  = toUpperCase(submits[resuming[2]].ticker)]_vars

\* A record whose icon call failed has been added, and the modal is closed
C9_Witness ==
    /\ Idle
    /\ Len(assets) = 2
    /\ assets[2].iconUrl = Undefined
    /\ assets[2].ticker = "AAPL"
    /\ submits = <<>>
    /\ ~isAddModalOpen

----------------------------------------------------------------------------
(* Properties of the chat turn *)

RECURSIVE Concat(_)
\* The concatenation of a sequence of fragments
Concat(chunks) ==
    IF chunks = <<>> THEN <<>> ELSE Head(chunks) \o Concat(Tail(chunks))

\* C10: while a reply streams, the text of the last message is the
\* concatenation of the fragments consumed so far, in order; when the stream
\* ends, it is the concatenation of all the fragments of the reply.
C10_TextIsConcatenation ==
    [][/\ isLoading' =>
             messages'[Len(messages')].text
               = Concat(SubSeq(stream'.chunks, 1, received'))
       /\ (isLoading /\ ~isLoading' /\ ~stream.fails) =>
             /\ messages'[Len(messages')].role = "model"
             /\ messages'[Len(messages')].text = Concat(stream.chunks)]_vars

\* A turn has ended whose reply came as the fragments "a" and "bc"
C10_Witness ==
    /\ ~isLoading
    /\ Len(messages) = 3
    /\ messages[2].role = "user"
    /\ messages[3].text = <<"a", "b", "c">>

\* The step with which a turn ends: the gate is released
TurnEnds == isLoading /\ ~isLoading'

\* The step with which a turn ends because the stream has thrown
TurnFails == TurnEnds /\ stream.fails

\* C11: the placeholder is appended with the thinking flag set; the flag is
\* still set when the first fragment has been applied; a flag is cleared only
\* by the step that ends the turn; and once a turn has ended no message of the
\* history has the flag set, also when the stream yielded no fragment.
C11_ThinkingUntilStreamEnd ==
    [][/\ Len(messages') = Len(messages) + 2
             => messages'[Len(messages')].isThinking
       /\ (isLoading /\ isLoading' /\ received' = 1)
             => messages'[Len(messages')].isThinking
       /\ \A k \in 1..Len(messages) :
             (messages[k].isThinking /\ ~messages'[k].isThinking) => TurnEnds
       /\ ~isLoading' => \A k \in 1..Len(messages') : ~messages'[k].isThinking]_vars

\* C12: when the stream throws, after any number of fragments, the history
\* keeps its length, its last message (the placeholder of the turn) becomes
\* the error message, the message before it is the user message only when no
\* other assistant message stands between, and the gate is released.
C12_ErrorReplacesPlaceholder ==
    [][TurnFails =>
        /\ Len(messages') = Len(messages)
        /\ messages'[Len(messages')].text = ErrorText
        /\ messages'[Len(messages') - 1].role = "user"
        /\ ~isLoading'
        /\ stream' = NoStream]_vars

\* C13: a turn starts only from idle, setting the gate; while a turn is in
\* flight a step either consumes the next fragment of the running stream, or
\* ends the turn, or leaves the history and the stream as they are (a send
\* attempted then changes nothing); and the step that drops the stream,
\* exhausted or failed, releases the gate.
C13_OneTurnInFlight ==
    [][/\ Cardinality(UserMessages(messages')) # Cardinality(UserMessages(messages))
             => ~isLoading /\ isLoading'
       /\ isLoading =>
             \/ /\ stream' = stream
                /\ received' = received + 1
                /\ Len(messages') = Len(messages)
             \/ /\ stream' = NoStream
                /\ ~isLoading'
                /\ received = Len(stream.chunks)
             \/ /\ stream' = stream
                /\ received' = received
                /\ messages' = messages
                /\ isLoading']_vars

\* The second turn is in flight, its first fragment applied, and the user has
\* typed the next question
C13_Witness ==
    /\ isLoading
    /\ received = 1
    /\ Len(stream.chunks) = 2
    /\ Cardinality(UserMessages(messages)) = 2
    /\ TrimText(input) # <<>>

\* C14: no step shortens the history; the messages before the last one stay
\* as they are, and so does the last one when no turn is in flight; while a
\* turn is in flight the last message keeps its role and its text grows by a
\* suffix; and a send appends the user message and then the empty placeholder,
\* with no fragment consumed.
C14_HistoryAppendOnly ==
    [][/\ Len(messages') >= Len(messages)
       /\ \A k \in 1..Len(messages) :
             (k < Len(messages) \/ ~isLoading) => messages'[k] = messages[k]
       /\ isLoading =>
             LET old == messages[Len(messages)]
                 new == messages'[Len(messages)]
             IN  /\ new.role = old.role
                 /\ Len(new.text) >= Len(old.text)
                 /\ SubSeq(new.text, 1, Len(old.text)) = old.text
       /\ (~isLoading /\ isLoading') =>
             /\ Len(messages') = Len(messages) + 2
             /\ messages'[Len(messages) + 1] =
                  [role |-> "user", text |-> input, isThinking |-> FALSE]
             /\ messages'[Len(messages) + 2].role = "model"
             /\ messages'[Len(messages) + 2].text = <<>>
             /\ received' = 0]_vars

\* Two turns have ended, the first by a failure after one fragment, the
\* second with a reply of two fragments
C14_Witness ==
    /\ ~isLoading
    /\ Len(messages) = 6
    /\ messages[3].text = <<"a">>
    /\ messages[4].text = ErrorText
    /\ messages[5].role = "user"
    /\ messages[6].text = <<"b", "c", "a">>

----------------------------------------------------------------------------
(* Properties of the receipt extraction *)

\* C15: the step with which a call of handleFileChange finishes, whatever the
\* read and the extraction gave (fields, nothing, or an error thrown), leaves
\* the modal out of the processing state, and either with the extracted
\* fields in the form shown for review or with the failure status set.
C15_ProcessingAlwaysEnds ==
    [][(Len(files') < Len(files) /\ isAddModalOpen') =>
        /\ ~isProcessing'
        /\ \/ loadingStatus' = StatusExtracted /\ activeTab' = "manual"
           \/ loadingStatus' = StatusFailed]_vars

\* C16: when an extraction returns an object, each of ticker, quantity and
\* avgPrice that the object has is written to its form field, whatever its
\* value, and a field whose member the object lacks keeps what it held.
C16_PatchesReturnedFields ==
    [][(FileResuming /\ data.kind = "return" /\ data.val.t = "object") =>
        /\ ticker' = IF data.val.ticker # Undefined
                     THEN data.val.ticker.s ELSE ticker
        /\ qty' = IF data.val.quantity # Undefined
                  THEN NumToString(data.val.quantity.v) ELSE qty
        /\ price' = IF data.val.avgPrice # Undefined
                    THEN NumToString(data.val.avgPrice.v) ELSE price]_vars

----------------------------------------------------------------------------
(* Properties of the news *)

\* The characters of a text that are neither blanks nor delimiters
Letters(text) ==
    SelectSeq(text, LAMBDA ch : ch # " " /\ ch # PartSep /\ ch # StorySep)

\* The item carries the whole segment: in headline and summary together, or
\* in the summary alone
CarriesSegment(item, segment) ==
    \/ Letters(item.headline) \o Letters(item.summary) = Letters(segment)
    \/ Letters(item.summary) = Letters(segment)

\* A call of fetchStockNews returns what it made of a reply text that is not
\* empty
NewsTextReturned ==
    /\ ~NewsResuming
    /\ NewsResuming'
    /\ newsResponse'.kind = "text"
    /\ Len(newsResponse'.text) > 0

\* C17: when the reply text is not empty, fetchStockNews returns at least one
\* item; when the text has story segments that are not blank, it returns one
\* item for each, in order, and the item carries all the characters of its
\* segment, blanks and delimiters aside; and when the text has neither
\* delimiter, it returns one item whose summary is the text (with or without
\* the blanks around it).
C17_NoNewsTextDiscarded ==
    [][NewsTextReturned =>
        LET text == newsResponse'.text
            segments == RawItems(text)
            items == newsItems'
        IN  /\ Len(items) >= 1
            /\ segments # <<>> =>
                  /\ Len(items) = Len(segments)
                  /\ \A k \in 1..Len(segments) :
                        CarriesSegment(items[k], segments[k])
            /\ (\A k \in 1..Len(text) : text[k] \notin {StorySep, PartSep}) =>
                  /\ Len(items) = 1
                  /\ items[1].summary \in {text, TrimText(text)}]_vars

\* C18: whatever the reply text, fetchStockNews returns at most as many items
\* as the ten stories it asks for.
C18_AtMostTenItems ==
    [][NewsResuming' => Len(newsItems') <= TopStories]_vars

\* C19: generateContent is called only by a call of fetchStockNews that has
\* tickers; a call without tickers leaves the number of requests as it is and
\* returns the empty sequence; and the news effect starts no call while the
\* collection is empty.
C19_EmptyTickersShortCircuit ==
    [][/\ newsRequests' # newsRequests =>
             /\ newsRequests' = newsRequests + 1
             /\ Len(newsCalls') = Len(newsCalls) + 1
             /\ newsCalls'[Len(newsCalls')].tickers # <<>>
       /\ Len(newsCalls') > Len(newsCalls) =>
             LET call == newsCalls'[Len(newsCalls')]
             IN  /\ call.tickers = <<>> => newsRequests' = newsRequests
                 /\ call.origin = "effect" => Len(assets) > 0
       /\ (NewsResuming' /\ ~NewsResuming) =>
             (newsCalls'[resuming'[2]].tickers = <<>> =>
                 newsItems' = <<>> /\ newsResponse' = NoResponse)
       /\ Len(assets) = 0 => news' = <<>> /\ ~loadingNews']_vars

\* A call of fetchStockNews without tickers is returning an empty list, with
\* no request made
C19_Witness ==
    /\ NewsResuming
    /\ newsCalls[resuming[2]].tickers = <<>>
    /\ newsCalls[resuming[2]].requested = FALSE
    /\ newsItems = <<>>
    /\ newsResponse = NoResponse
    /\ newsRequests = 0

----------------------------------------------------------------------------
(* Properties of the summary *)

RECURSIVE SumValue(_)
\* The sum of quantity * currentPrice over the records of a collection
SumValue(coll) ==
    IF coll = <<>> THEN 0
    ELSE SumValue(SubSeq(coll, 1, Len(coll) - 1))
            + coll[Len(coll)].quantity * coll[Len(coll)].currentPrice

RECURSIVE SumCost(_)
\* The sum of quantity * avgPrice over the records of a collection
SumCost(coll) ==
    IF coll = <<>> THEN 0
    ELSE SumCost(SubSeq(coll, 1, Len(coll) - 1))
            + coll[Len(coll)].quantity * coll[Len(coll)].avgPrice

\* C20: the summary rendered for the collection has totalValue the sum of
\* quantity * currentPrice, totalCost the sum of quantity * avgPrice,
\* totalGain their difference, and gainPercentage totalGain / totalCost * 100,
\* or 0 when totalCost is 0, the empty collection included; it is that of the
\* collection as it is after every add and every refresh.
C20_SummaryMath ==
    summary # NotRendered =>
        LET value == SumValue(assets)
            cost == SumCost(assets)
        IN  /\ summary.totalValue = value
            /\ summary.totalCost = cost
            /\ summary.totalGain = value - cost
            /\ IF cost = 0
               THEN RatioEq(summary.gainPercentage, Ratio(0, 1))
               ELSE RatioEq(summary.gainPercentage, Ratio((value - cost) * 100, cost))

----------------------------------------------------------------------------
(* Properties of the records *)

\* No two records of a collection have the same id
UniqueIds(coll) ==
    \A i, j \in 1..Len(coll) : coll[i].id = coll[j].id => i = j

\* Every record of prev is in next at its place with the id it had
IdsKept(prev, next) ==
    /\ Len(next) >= Len(prev)
    /\ \A k \in 1..Len(prev) : next[k].id = prev[k].id

\* C21: in every reachable state no two records of the collection have the
\* same id, and no step changes the id of a record that is in the collection.
C21_UniqueStableIds ==
    [][UniqueIds(assets') /\ IdsKept(assets, assets')]_vars

\* C22: in every reachable state every record of the collection has a
\* quantity, an avgPrice and a currentPrice that are not negative, whatever the
\* user submits in the add form and whatever prices the market gateway returns.
C22_FieldsNonNegative ==
    \A k \in 1..Len(assets) :
        /\ assets[k].quantity >= 0
        /\ assets[k].avgPrice >= 0
        /\ assets[k].currentPrice >= 0

----------------------------------------------------------------------------
(* Properties of overlapping news fetches *)

\* The step is the return of the last pending fetch of the news effect, the
\* effect having run for the collection as it stands
LastFetchReturns ==
    /\ NewsResuming
    /\ resuming' = NoCall
    /\ newsCalls[resuming[2]].origin = "effect"
    /\ newsCalls' = <<>>
    /\ newsDep = Len(assets)

\* C23: when the last of the fetches of the news effect returns, the list put
\* on display is the result of the fetch issued last, the one for the tickers
\* of the collection as it stands, and not the result of an older fetch.
C23_LatestFetchWins ==
    [][LastFetchReturns =>
          /\ newsCalls[resuming[2]].tickers = Tickers(assets)
          /\ news' = newsItems]_vars

====
